---- MODULE Spec2Model ----
(***************************************************************************)
(* Library management application: the entity store (MemStorage and        *)
(* DatabaseStorage), the REST routes in front of it and the admin          *)
(* client's multi-request issue / return / edit flows.                     *)
(***************************************************************************)
EXTENDS Integers, Sequences, FiniteSets, TLC

VARIABLES impl,         \* which IStorage implementation is bound to `storage`
          books,        \* id -> Book
          members,      \* id -> Member
          circulation,  \* id -> Circulation
          currentId,    \* MemStorage.currentId (one counter for all maps)
          serial,       \* DatabaseStorage: next value of each table's serial id
          now,          \* the clock read by new Date()
          flow,         \* per client: the issue / return mutation in progress
          editForm,     \* per client: LibraryTab.editingBook / editForm
          resp,         \* the last response of a read operation
          categories,       \* id -> Category
          bookSuggestions,  \* id -> BookSuggestion
          bookReviews,      \* id -> BookReview
          loggedIn,     \* per client: localStorage "isAdminLoggedIn"
          assigned,     \* per table: the ids its creates returned, in order
          twin          \* a DatabaseStorage circulation table given the same calls

vars == <<impl, books, members, circulation, currentId, serial, now, flow,
          editForm, resp, categories, bookSuggestions, bookReviews, loggedIn,
          assigned, twin>>

store == <<books, members, circulation, currentId, serial>>

\* what the circulation flows and the book routes leave alone
others == <<categories, bookSuggestions, bookReviews, loggedIn, twin>>

\* ---------------------------------------------------------------- bounds
MaxCreates == 4       \* entities created in a behaviour of Spec and SpecEdit
MaxStoreCreates == 4  \* entities created in a behaviour of SpecStore
MaxReadCreates == 7   \* entities created in a behaviour of SpecAnalytics
MaxTime == 3          \* the clock stops here
MaxCrudCreates == 3   \* entities created in a behaviour of SpecCrud

\* ------------------------------------------------------ program constants
Null == 0            \* null / undefined / the epoch of new Date(null)
LoanDays == 14

Clients == {"c1", "c2"}
Titles == {"t1", "t2"}
Tables == {"books", "members", "categories", "bookSuggestions", "bookReviews",
           "circulation"}

\* ------------------------------------------------------------- helpers
\* { ...a, ...b }
Merge(a, b) ==
  [k \in (DOMAIN a) \cup (DOMAIN b) |-> IF k \in DOMAIN b THEN b[k] ELSE a[k]]

\* r.k, undefined read as Null
Get(r, k) == IF k \in DOMAIN r THEN r[k] ELSE Null

\* map.set(id, v)
Put(m, id, v) == [k \in (DOMAIN m) \cup {id} |-> IF k = id THEN v ELSE m[k]]

\* map.delete(id)
Remove(m, id) == [k \in (DOMAIN m) \ {id} |-> m[k]]

\* zod object parse: unknown keys are stripped
Strip(body, keys) == [k \in (DOMAIN body) \cap keys |-> body[k]]

Min(S) == CHOOSE x \in S : \A y \in S : x <= y

RECURSIVE Ascending(_)
Ascending(S) == IF S = {} THEN <<>> ELSE <<Min(S)>> \o Ascending(S \ {Min(S)})

\* Array.from(map.values()): a Map iterates in insertion order, and ids are
\* handed out in increasing order, so this is ascending key order
MemValues(m) == [i \in 1..Cardinality(DOMAIN m) |-> m[Ascending(DOMAIN m)[i]]]

\* db.select().from(table) without ORDER BY: the rows in the order ord
Orders(m) == {o \in [1..Cardinality(DOMAIN m) -> DOMAIN m] :
                \A i, j \in DOMAIN o : i # j => o[i] # o[j]}
DbRows(m, ord) == [i \in DOMAIN ord |-> m[ord[i]]]

Range(s) == {s[i] : i \in DOMAIN s}

\* ------------------------------------------------------------ schema.ts
\* createInsertSchema(...).omit(...): the keys each insert schema keeps
InsertBookKeys == {"title"}
InsertBookRequired == {"title"}
InsertMemberKeys == {"fullName", "class", "registrationNo"}
InsertMemberRequired == {"fullName", "class", "registrationNo"}
InsertCategoryKeys == {"name"}
InsertCategoryRequired == {"name"}
InsertBookSuggestionKeys == {"memberId", "bookTitle"}
InsertBookSuggestionRequired == {"memberId", "bookTitle"}
InsertBookReviewKeys == {"bookId", "memberId", "rating"}
InsertBookReviewRequired == {"bookId", "memberId", "rating"}
InsertCirculationKeys == {"bookId", "memberId", "action", "dueDate", "returnDate"}
InsertCirculationRequired == {"bookId", "memberId", "action"}

\* schema.parse(body): ok with the parsed data, or not ok (a ZodError)
insertBookSchema(body) ==
  [ok |-> InsertBookRequired \subseteq DOMAIN body,
   data |-> Strip(body, InsertBookKeys)]

insertCirculationSchema(body) ==
  [ok |-> InsertCirculationRequired \subseteq DOMAIN body,
   data |-> Strip(body, InsertCirculationKeys)]

insertMemberSchema(body) ==
  [ok |-> InsertMemberRequired \subseteq DOMAIN body,
   data |-> Strip(body, InsertMemberKeys)]

insertCategorySchema(body) ==
  [ok |-> InsertCategoryRequired \subseteq DOMAIN body,
   data |-> Strip(body, InsertCategoryKeys)]

insertBookSuggestionSchema(body) ==
  [ok |-> InsertBookSuggestionRequired \subseteq DOMAIN body,
   data |-> Strip(body, InsertBookSuggestionKeys)]

\* rating: integer("rating").notNull() becomes z.number().int(), no range
insertBookReviewSchema(body) ==
  [ok |-> InsertBookReviewRequired \subseteq DOMAIN body,
   data |-> Strip(body, InsertBookReviewKeys)]

\* members.registrationNo / categories.name .unique(): no row other than
\* `except` holds the value
UniqueHolds(rows, field, value, except) ==
  ~ \E k \in DOMAIN rows : k # except /\ rows[k][field] = value

\* bookSuggestions.memberId .references(members.id)
MemberKeyHolds(mems, data) == data.memberId \in DOMAIN mems

\* circulation.bookId / memberId .references(books.id / members.id)
ForeignKeysHold(bks, mems, data) ==
  data.bookId \in DOMAIN bks /\ data.memberId \in DOMAIN mems

\* a row of books is referenced by a circulation row
Referenced(circ, field, id) == \E k \in DOMAIN circ : circ[k][field] = id

\* -------------------------------------------------------- MemStorage
\* variant: the status is left to a column default the Map does not have
MemCreateBookNoStatus(book, id, t) ==
  Merge(book, [id |-> id, createdAt |-> t])

MemCreateBook(book, id, t) ==
  Merge(book, [id |-> id, status |-> "available", createdAt |-> t])

\* variant: the stored entity is the partial alone, under the entity's id
MemUpdateBookReplace(bks, id, updates) ==
  IF id \notin DOMAIN bks THEN bks
  ELSE Put(bks, id, Merge([id |-> bks[id].id], updates))

MemUpdateBook(bks, id, updates) ==
  IF id \notin DOMAIN bks THEN bks ELSE Put(bks, id, Merge(bks[id], updates))

MemDeleteBook(bks, id) == Remove(bks, id)

MemCreateMember(member, id, t) == Merge(member, [id |-> id, createdAt |-> t])

\* variant: an update of an id the map does not hold stores the updates
MemUpdateMemberUpsert(mems, id, updates) ==
  Put(mems, id, Merge(IF id \in DOMAIN mems THEN mems[id] ELSE [id |-> id], updates))

MemUpdateMember(mems, id, updates) ==
  IF id \notin DOMAIN mems THEN mems ELSE Put(mems, id, Merge(mems[id], updates))

MemDeleteMember(mems, id) == Remove(mems, id)

MemCreateCategory(category, id, t) ==
  Merge(category, [id |-> id, createdAt |-> t])

MemUpdateCategory(cats, id, updates) ==
  IF id \notin DOMAIN cats THEN cats ELSE Put(cats, id, Merge(cats[id], updates))

MemDeleteCategory(cats, id) == Remove(cats, id)

MemCreateBookSuggestion(suggestion, id, t) ==
  Merge(suggestion, [id |-> id, status |-> "pending", createdAt |-> t])

MemUpdateBookSuggestion(sugs, id, updates) ==
  IF id \notin DOMAIN sugs THEN sugs ELSE Put(sugs, id, Merge(sugs[id], updates))

MemCreateBookReview(review, id, t) ==
  Merge(review, [id |-> id, createdAt |-> t])

MemUpdateBookReview(revs, id, updates) ==
  IF id \notin DOMAIN revs THEN revs ELSE Put(revs, id, Merge(revs[id], updates))

MemCreateCirculationRecord(data, id, t) ==
  Merge(data, [id |-> id, date |-> t, status |-> "active"])

\* variant: a record that is marked returned is taken out of the map
MemUpdateCirculationRecordPrune(circ, id, updates) ==
  IF id \notin DOMAIN circ THEN circ
  ELSE IF Get(updates, "status") = "returned" THEN Remove(circ, id)
  ELSE Put(circ, id, Merge(circ[id], updates))

MemUpdateCirculationRecord(circ, id, updates) ==
  IF id \notin DOMAIN circ THEN circ ELSE Put(circ, id, Merge(circ[id], updates))

MemGetActiveCirculation(circ) ==
  SelectSeq(MemValues(circ), LAMBDA c : c.status = "active")

\* variant: a record due exactly now counts as overdue
MemGetOverdueCirculationInclusive(circ, t) ==
  SelectSeq(MemValues(circ),
            LAMBDA c : c.status = "active" /\ Get(c, "dueDate") # Null
                       /\ Get(c, "dueDate") <= t)

MemGetOverdueCirculation(circ, t) ==
  SelectSeq(MemValues(circ),
            LAMBDA c : c.status = "active" /\ Get(c, "dueDate") # Null
                       /\ Get(c, "dueDate") < t)

\* ----------------------------------------------------- DatabaseStorage
DbCreateBook(book, id, t) ==
  Merge([id |-> id], Merge(book, [status |-> "available", createdAt |-> t]))

DbUpdateBook(bks, id, updates) ==
  IF id \notin DOMAIN bks THEN bks ELSE Put(bks, id, Merge(bks[id], updates))

DbDeleteBook(bks, id) == Remove(bks, id)

DbCreateMember(member, id, t) ==
  Merge([id |-> id], Merge(member, [createdAt |-> t]))

DbUpdateMember(mems, id, updates) ==
  IF id \notin DOMAIN mems THEN mems ELSE Put(mems, id, Merge(mems[id], updates))

DbDeleteMember(mems, id) == Remove(mems, id)

DbCreateCategory(category, id, t) ==
  Merge([id |-> id], Merge(category, [createdAt |-> t]))

DbUpdateCategory(cats, id, updates) ==
  IF id \notin DOMAIN cats THEN cats ELSE Put(cats, id, Merge(cats[id], updates))

DbDeleteCategory(cats, id) == Remove(cats, id)

DbCreateBookSuggestion(suggestion, id, t) ==
  Merge([id |-> id], Merge(suggestion, [status |-> "pending", createdAt |-> t]))

DbUpdateBookSuggestion(sugs, id, updates) ==
  IF id \notin DOMAIN sugs THEN sugs ELSE Put(sugs, id, Merge(sugs[id], updates))

DbCreateBookReview(review, id, t) ==
  Merge([id |-> id], Merge(review, [createdAt |-> t]))

DbUpdateBookReview(revs, id, updates) ==
  IF id \notin DOMAIN revs THEN revs ELSE Put(revs, id, Merge(revs[id], updates))

\* columns the insert leaves out are stored as NULL
DbCreateCirculationRecord(data, id, t) ==
  Merge([id |-> id, dueDate |-> Null, returnDate |-> Null],
        Merge(data, [date |-> t,
                     status |-> IF data.action = "return" THEN "returned"
                                ELSE "active"]))

DbUpdateCirculationRecord(circ, id, updates) ==
  IF id \notin DOMAIN circ THEN circ ELSE Put(circ, id, Merge(circ[id], updates))

DbGetActiveCirculation(circ, ord) ==
  SelectSeq(DbRows(circ, ord), LAMBDA c : c.status = "active")

\* lt(dueDate, now) is NULL, hence not true, on a NULL dueDate
DbGetOverdueCirculation(circ, ord, t) ==
  SelectSeq(DbRows(circ, ord),
            LAMBDA c : c.status = "active"
                       /\ (IF c.dueDate = Null THEN FALSE ELSE c.dueDate < t))

\* ------------------------------------------------------------ analytics
\* borrowCounts.set(key, (borrowCounts.get(key) || 0) + 1) over the rows, in
\* order: a Map keeps its keys in first-insertion order.  The map is a sequence
\* of <<key, count>> pairs.
Bump(counts, key) ==
  IF \E i \in DOMAIN counts : counts[i][1] = key
  THEN [i \in DOMAIN counts |->
          IF counts[i][1] = key THEN <<key, counts[i][2] + 1>> ELSE counts[i]]
  ELSE Append(counts, <<key, 1>>)

RECURSIVE BorrowCounts(_, _, _)
BorrowCounts(rows, field, counts) ==
  IF rows = <<>> THEN counts
  ELSE BorrowCounts(Tail(rows), field,
                    IF Head(rows).action = "borrow"
                    THEN Bump(counts, Head(rows)[field]) ELSE counts)

\* results.push({ book, borrowCount }) for the keys whose book exists
RECURSIVE JoinBooks(_, _)
JoinBooks(counts, bks) ==
  IF counts = <<>> THEN <<>>
  ELSE (IF Head(counts)[1] \in DOMAIN bks
        THEN <<[book |-> bks[Head(counts)[1]], borrowCount |-> Head(counts)[2]]>>
        ELSE <<>>) \o JoinBooks(Tail(counts), bks)

\* variant: the comparator is a.borrowCount - b.borrowCount
RECURSIVE InsertAsc(_, _)
InsertAsc(sorted, e) ==
  IF sorted = <<>> THEN <<e>>
  ELSE IF Head(sorted).borrowCount <= e.borrowCount
       THEN <<Head(sorted)>> \o InsertAsc(Tail(sorted), e)
       ELSE <<e>> \o sorted

\* Array.prototype.sort((a, b) => b.borrowCount - a.borrowCount): stable
RECURSIVE InsertDesc(_, _)
InsertDesc(sorted, e) ==
  IF sorted = <<>> THEN <<e>>
  ELSE IF Head(sorted).borrowCount >= e.borrowCount
       THEN <<Head(sorted)>> \o InsertDesc(Tail(sorted), e)
       ELSE <<e>> \o sorted

RECURSIVE SortDesc(_, _)
SortDesc(results, sorted) ==
  IF results = <<>> THEN sorted
  ELSE SortDesc(Tail(results), InsertDesc(sorted, Head(results)))

MemGetMostReadBooks(circ, bks) ==
  SortDesc(JoinBooks(BorrowCounts(MemValues(circ), "bookId", <<>>), bks), <<>>)

DbGetMostReadBooks(circ, ord, bks) ==
  SortDesc(JoinBooks(BorrowCounts(DbRows(circ, ord), "bookId", <<>>), bks), <<>>)

\* for (const record of activeCirculation) { if (book && member) push }
RECURSIVE JoinIssued(_, _, _)
JoinIssued(active, bks, mems) ==
  IF active = <<>> THEN <<>>
  ELSE (IF Head(active).bookId \in DOMAIN bks /\ Head(active).memberId \in DOMAIN mems
        THEN <<[book |-> bks[Head(active).bookId],
                member |-> mems[Head(active).memberId],
                dueDate |-> Get(Head(active), "dueDate")]>>
        ELSE <<>>) \o JoinIssued(Tail(active), bks, mems)

MemGetIssuedBooks(circ, bks, mems) ==
  JoinIssued(MemGetActiveCirculation(circ), bks, mems)

DbGetIssuedBooks(circ, ord, bks, mems) ==
  JoinIssued(DbGetActiveCirculation(circ, ord), bks, mems)

\* --------------------------------------------------------------- routes
\* the method / path pairs registerRoutes registers
Routes ==
  { <<"GET", "/api/books">>, <<"GET", "/api/books/search">>,
    <<"GET", "/api/books/:id">>, <<"POST", "/api/books">>,
    <<"PUT", "/api/books/:id">>, <<"DELETE", "/api/books/:id">>,
    <<"GET", "/api/members">>, <<"GET", "/api/members/search">>,
    <<"POST", "/api/members">>,
    <<"GET", "/api/categories">>, <<"POST", "/api/categories">>,
    <<"DELETE", "/api/categories/:id">>,
    <<"GET", "/api/book-suggestions">>, <<"POST", "/api/book-suggestions">>,
    <<"GET", "/api/book-reviews">>, <<"GET", "/api/book-reviews/book/:bookId">>,
    <<"POST", "/api/book-reviews">>,
    <<"GET", "/api/circulation">>, <<"GET", "/api/circulation/active">>,
    <<"GET", "/api/circulation/overdue">>, <<"POST", "/api/circulation">>,
    <<"GET", "/api/analytics/most-read-books">>,
    <<"GET", "/api/analytics/most-active-readers">>,
    <<"GET", "/api/analytics/issued-books">> }

HasRoute(method, path) == <<method, path>> \in Routes

\* what a request to a path no route matches comes back as: the catch-all
\* behind the API routes answers it (200, nothing done) or it is a 404, which
\* apiRequest throws on
UnroutedOutcomes == {"ok", "error"}

\* ---------------------------------------------------------------- state
NoResp == [op |-> "none"]

IdleFlow == [kind |-> "none", pc |-> "idle", bookId |-> Null, memberId |-> Null,
             rec |-> Null, first |-> Null, status0 |-> "none", clean |-> TRUE]

NoForm == [id |-> Null]

InFlight == {"post_circulation", "put_circulation", "put_book", "get_active"}

\* the map / table of an entity type
Table(t) ==
  CASE t = "books" -> books
    [] t = "members" -> members
    [] t = "categories" -> categories
    [] t = "bookSuggestions" -> bookSuggestions
    [] t = "bookReviews" -> bookReviews
    [] t = "circulation" -> circulation

\* variant: a create takes the lowest id that is free at the moment
NextIdReuse(table) ==
  IF impl = "mem"
  THEN Min((1..currentId) \ UNION {DOMAIN Table(t) : t \in Tables})
  ELSE Min((1..serial[table]) \ DOMAIN Table(table))

NextId(table) == IF impl = "mem" THEN currentId ELSE serial[table]

RECURSIVE Sum(_, _)
Sum(f, S) == IF S = {} THEN 0
             ELSE LET x == CHOOSE y \in S : TRUE IN f[x] + Sum(f, S \ {x})

Created ==
  IF impl = "mem" THEN currentId - 1
  ELSE Sum([t \in Tables |-> serial[t] - 1], Tables)

\* this.currentId++  /  the table's serial column
Advance(table) ==
  /\ IF impl = "mem"
     THEN currentId' = currentId + 1 /\ UNCHANGED serial
     ELSE serial' = [serial EXCEPT ![table] = @ + 1] /\ UNCHANGED currentId
  /\ assigned' = [assigned EXCEPT ![table] = Append(@, NextId(table))]

\* a writing request of the flow of client c: the flow of every other client
\* is no longer running alone
Disturbed(c) ==
  [d \in Clients |->
     IF d # c /\ flow[d].pc # "idle" THEN [flow[d] EXCEPT !.clean = FALSE]
     ELSE flow[d]]

\* a writing request outside the flows: no flow is running alone any more
Interleaved ==
  [d \in Clients |->
     IF flow[d].pc # "idle" THEN [flow[d] EXCEPT !.clean = FALSE] ELSE flow[d]]

Init ==
  /\ impl \in {"mem", "db"}
  /\ books = <<>>
  /\ members = <<>>
  /\ circulation = <<>>
  /\ currentId = 1
  /\ serial = [t \in Tables |-> 1]
  /\ now = 1
  /\ flow = [c \in Clients |-> IdleFlow]
  /\ editForm = [c \in Clients |-> NoForm]
  /\ resp = NoResp
  /\ categories = <<>>
  /\ bookSuggestions = <<>>
  /\ bookReviews = <<>>
  /\ loggedIn = [c \in Clients |-> FALSE]
  /\ assigned = [t \in Tables |-> <<>>]
  /\ twin = [circulation |-> <<>>, serial |-> 1]

\* ------------------------------------------------ IStorage, by implementation
createBook(data) ==
  IF impl = "mem" THEN MemCreateBook(data, NextId("books"), now)
  ELSE DbCreateBook(data, NextId("books"), now)

createMember(data) ==
  IF impl = "mem" THEN MemCreateMember(data, NextId("members"), now)
  ELSE DbCreateMember(data, NextId("members"), now)

createCirculationRecord(data) ==
  IF impl = "mem" THEN MemCreateCirculationRecord(data, NextId("circulation"), now)
  ELSE DbCreateCirculationRecord(data, NextId("circulation"), now)

updateBook(id, updates) ==
  IF impl = "mem" THEN MemUpdateBook(books, id, updates)
  ELSE DbUpdateBook(books, id, updates)

deleteBook(id) ==
  IF impl = "mem" THEN MemDeleteBook(books, id) ELSE DbDeleteBook(books, id)

updateCirculationRecord(id, updates) ==
  IF impl = "mem" THEN MemUpdateCirculationRecord(circulation, id, updates)
  ELSE DbUpdateCirculationRecord(circulation, id, updates)

\* the insert is rejected by the database when a foreign key has no row
InsertAccepted(data) ==
  impl = "mem" \/ ForeignKeysHold(books, members, data)

\* the delete is rejected by the database while a circulation row refers to it
DeleteAccepted(field, id) ==
  \/ impl = "mem"
  \/ /\ ~Referenced(circulation, field, id)
     /\ ~Referenced(bookReviews, field, id)
     /\ field = "memberId" => ~Referenced(bookSuggestions, field, id)

createCategory(data) ==
  IF impl = "mem" THEN MemCreateCategory(data, NextId("categories"), now)
  ELSE DbCreateCategory(data, NextId("categories"), now)

createBookSuggestion(data) ==
  IF impl = "mem" THEN MemCreateBookSuggestion(data, NextId("bookSuggestions"), now)
  ELSE DbCreateBookSuggestion(data, NextId("bookSuggestions"), now)

createBookReview(data) ==
  IF impl = "mem" THEN MemCreateBookReview(data, NextId("bookReviews"), now)
  ELSE DbCreateBookReview(data, NextId("bookReviews"), now)

updateMember(id, updates) ==
  IF impl = "mem" THEN MemUpdateMember(members, id, updates)
  ELSE DbUpdateMember(members, id, updates)

deleteMember(id) ==
  IF impl = "mem" THEN MemDeleteMember(members, id) ELSE DbDeleteMember(members, id)

updateCategory(id, updates) ==
  IF impl = "mem" THEN MemUpdateCategory(categories, id, updates)
  ELSE DbUpdateCategory(categories, id, updates)

deleteCategory(id) ==
  IF impl = "mem" THEN MemDeleteCategory(categories, id)
  ELSE DbDeleteCategory(categories, id)

updateBookSuggestion(id, updates) ==
  IF impl = "mem" THEN MemUpdateBookSuggestion(bookSuggestions, id, updates)
  ELSE DbUpdateBookSuggestion(bookSuggestions, id, updates)

updateBookReview(id, updates) ==
  IF impl = "mem" THEN MemUpdateBookReview(bookReviews, id, updates)
  ELSE DbUpdateBookReview(bookReviews, id, updates)

\* map.get(id)  /  const [row] = select ... where id; return row || undefined
OrUndefined(m, id) ==
  IF id \in DOMAIN m THEN [undefined |-> FALSE, value |-> m[id]]
  ELSE [undefined |-> TRUE]

\* the insert or update is rejected by the database when the unique column
\* would hold a value twice
UniqueAccepted(rows, field, data, except) ==
  \/ impl = "mem"
  \/ field \notin DOMAIN data
  \/ UniqueHolds(rows, field, data[field], except)

\* the insert is rejected by the database when a foreign key has no row
SuggestionAccepted(data) == impl = "mem" \/ MemberKeyHolds(members, data)

ReviewAccepted(data) == impl = "mem" \/ ForeignKeysHold(books, members, data)

\* the row orders a select may come back in
RowOrders == IF impl = "mem" THEN {Ascending(DOMAIN circulation)}
             ELSE Orders(circulation)

getActiveCirculation(ord) ==
  IF impl = "mem" THEN MemGetActiveCirculation(circulation)
  ELSE DbGetActiveCirculation(circulation, ord)

getOverdueCirculation(ord) ==
  IF impl = "mem" THEN MemGetOverdueCirculation(circulation, now)
  ELSE DbGetOverdueCirculation(circulation, ord, now)

getMostReadBooks(ord) ==
  IF impl = "mem" THEN MemGetMostReadBooks(circulation, books)
  ELSE DbGetMostReadBooks(circulation, ord, books)

getIssuedBooks(ord) ==
  IF impl = "mem" THEN MemGetIssuedBooks(circulation, books, members)
  ELSE DbGetIssuedBooks(circulation, ord, books, members)

\* ------------------------------------------------- requests outside a flow
\* bodies a client may POST to /api/books
BookBodies ==
  {[title |-> "t1"], [title |-> "t1", status |-> "issued"], [status |-> "issued"]}

\* POST /api/books
PostBooks(c, body) ==
  /\ LET parsed == insertBookSchema(body)
         book == createBook(parsed.data)
     IN IF parsed.ok
        THEN /\ books' = Put(books, book.id, book)
             /\ Advance("books")
             /\ resp' = [op |-> "POST /api/books", status |-> 201, val |-> book,
                         body |-> body]
             /\ flow' = Interleaved
        ELSE /\ resp' = [op |-> "POST /api/books", status |-> 400, body |-> body]
             /\ UNCHANGED <<books, currentId, serial, assigned, flow>>
  /\ UNCHANGED <<others, impl, members, circulation, now, editForm>>

\* variant: the route hands req.body to the store without parsing it
PostMembersUnparsed(c, body) ==
  /\ LET member == createMember(body)
     IN /\ members' = Put(members, member.id, member)
        /\ resp' = [op |-> "POST /api/members", status |-> 201,
                    val |-> member, body |-> body]
  /\ Advance("members")
  /\ flow' = Interleaved
  /\ UNCHANGED <<others, impl, books, circulation, now, editForm>>

\* POST /api/members
PostMembers(c, body) ==
  /\ LET parsed == insertMemberSchema(body)
         member == createMember(parsed.data)
     IN IF parsed.ok /\ UniqueAccepted(members, "registrationNo", parsed.data, Null)
        THEN /\ members' = Put(members, member.id, member)
             /\ Advance("members")
             /\ resp' = [op |-> "POST /api/members", status |-> 201,
                         val |-> member, body |-> body]
             /\ flow' = Interleaved
        ELSE /\ resp' = [op |-> "POST /api/members",
                         status |-> IF parsed.ok THEN 500 ELSE 400, body |-> body]
             /\ UNCHANGED <<members, currentId, serial, assigned, flow>>
  /\ UNCHANGED <<others, impl, books, circulation, now, editForm>>

\* POST /api/categories
PostCategories(c, body) ==
  /\ LET parsed == insertCategorySchema(body)
         category == createCategory(parsed.data)
     IN IF parsed.ok /\ UniqueAccepted(categories, "name", parsed.data, Null)
        THEN /\ categories' = Put(categories, category.id, category)
             /\ Advance("categories")
             /\ resp' = [op |-> "POST /api/categories", status |-> 201,
                         val |-> category, body |-> body]
        ELSE /\ resp' = [op |-> "POST /api/categories",
                         status |-> IF parsed.ok THEN 500 ELSE 400, body |-> body]
             /\ UNCHANGED <<categories, currentId, serial, assigned>>
  /\ UNCHANGED <<twin, impl, books, members, circulation, now, flow, editForm,
                 bookSuggestions, bookReviews, loggedIn>>

\* POST /api/book-suggestions
PostBookSuggestions(c, body) ==
  /\ LET parsed == insertBookSuggestionSchema(body)
         suggestion == createBookSuggestion(parsed.data)
     IN IF parsed.ok /\ SuggestionAccepted(parsed.data)
        THEN /\ bookSuggestions' = Put(bookSuggestions, suggestion.id, suggestion)
             /\ Advance("bookSuggestions")
             /\ resp' = [op |-> "POST /api/book-suggestions", status |-> 201,
                         val |-> suggestion, body |-> body]
        ELSE /\ resp' = [op |-> "POST /api/book-suggestions",
                         status |-> IF parsed.ok THEN 500 ELSE 400, body |-> body]
             /\ UNCHANGED <<bookSuggestions, currentId, serial, assigned>>
  /\ UNCHANGED <<twin, impl, books, members, circulation, now, flow, editForm,
                 categories, bookReviews, loggedIn>>

\* POST /api/book-reviews
PostBookReviews(c, body) ==
  /\ LET parsed == insertBookReviewSchema(body)
         review == createBookReview(parsed.data)
     IN IF parsed.ok /\ ReviewAccepted(parsed.data)
        THEN /\ bookReviews' = Put(bookReviews, review.id, review)
             /\ Advance("bookReviews")
             /\ resp' = [op |-> "POST /api/book-reviews", status |-> 201,
                         val |-> review, body |-> body]
        ELSE /\ resp' = [op |-> "POST /api/book-reviews",
                         status |-> IF parsed.ok THEN 500 ELSE 400, body |-> body]
             /\ UNCHANGED <<bookReviews, currentId, serial, assigned>>
  /\ UNCHANGED <<twin, impl, books, members, circulation, now, flow, editForm,
                 categories, bookSuggestions, loggedIn>>

\* POST /api/circulation
PostCirculation(c, body) ==
  /\ LET parsed == insertCirculationSchema(body)
         record == createCirculationRecord(parsed.data)
     IN IF parsed.ok /\ InsertAccepted(parsed.data)
        THEN /\ circulation' = Put(circulation, record.id, record)
             /\ Advance("circulation")
             /\ resp' = [op |-> "POST /api/circulation", status |-> 201,
                         val |-> record, body |-> body]
             /\ flow' = Interleaved
        ELSE /\ resp' = [op |-> "POST /api/circulation",
                         status |-> IF parsed.ok THEN 500 ELSE 400, body |-> body]
             /\ UNCHANGED <<circulation, currentId, serial, assigned, flow>>
  /\ UNCHANGED <<others, impl, books, members, now, editForm>>

\* GET /api/books/:id
GetBooksId(c, id) ==
  /\ LET book == OrUndefined(books, id)
     IN resp' = [op |-> "GET /api/books/:id", id |-> id,
                 status |-> IF book.undefined THEN 404 ELSE 200, val |-> book]
  /\ UNCHANGED <<others, impl, books, members, circulation, currentId, serial,
                 assigned, now, flow, editForm>>

\* PUT /api/books/:id
PutBooks(c, id, updates) ==
  /\ books' = updateBook(id, updates)
  /\ LET book == OrUndefined(books', id)
     IN resp' = [op |-> "PUT /api/books/:id", id |-> id,
                 status |-> IF book.undefined THEN 404 ELSE 200, val |-> book]
  /\ flow' = IF id \in DOMAIN books THEN Interleaved ELSE flow
  /\ UNCHANGED <<others, impl, members, circulation, currentId, serial, assigned,
                 now, editForm>>

\* variant: the route does not look at what deleteBook returned
DeleteBooksUnchecked(c, id) ==
  /\ IF ~DeleteAccepted("bookId", id)
     THEN /\ resp' = [op |-> "DELETE /api/books/:id", id |-> id, status |-> 500]
          /\ UNCHANGED <<books, flow>>
     ELSE /\ books' = deleteBook(id)
          /\ resp' = [op |-> "DELETE /api/books/:id", id |-> id, status |-> 204]
          /\ flow' = Interleaved
  /\ UNCHANGED <<others, impl, members, circulation, currentId, serial, assigned, now, editForm>>

\* DELETE /api/books/:id (LibraryTab.deleteBook)
DeleteBooks(c, id) ==
  /\ IF ~DeleteAccepted("bookId", id)
     THEN /\ resp' = [op |-> "DELETE /api/books/:id", id |-> id, status |-> 500]
          /\ UNCHANGED <<books, flow>>
     ELSE IF id \in DOMAIN books
     THEN /\ books' = deleteBook(id)
          /\ resp' = [op |-> "DELETE /api/books/:id", id |-> id, status |-> 204]
          /\ flow' = Interleaved
     ELSE /\ resp' = [op |-> "DELETE /api/books/:id", id |-> id, status |-> 404]
          /\ UNCHANGED <<books, flow>>
  /\ UNCHANGED <<others, impl, members, circulation, currentId, serial, assigned, now, editForm>>

\* DELETE /api/categories/:id
DeleteCategories(c, id) ==
  /\ categories' = deleteCategory(id)
  /\ resp' = [op |-> "DELETE /api/categories/:id", id |-> id,
              status |-> IF id \in DOMAIN categories THEN 204 ELSE 404]
  /\ UNCHANGED <<twin, impl, books, members, circulation, currentId, serial, assigned,
                 now, flow, editForm, bookSuggestions, bookReviews, loggedIn>>

\* variant: a sweep that runs with the clock marks the records that are
\* overdue
TickSweep ==
  /\ now < MaxTime
  /\ now' = now + 1
  /\ circulation' =
       [k \in DOMAIN circulation |->
          IF /\ circulation[k].status = "active"
             /\ Get(circulation[k], "dueDate") # Null
             /\ Get(circulation[k], "dueDate") < now + 1
          THEN [circulation[k] EXCEPT !.status = "overdue"]
          ELSE circulation[k]]
  /\ resp' = NoResp
  /\ UNCHANGED <<others, impl, books, members, currentId, serial, assigned, flow, editForm>>

\* the clock advances
Tick ==
  /\ now < MaxTime
  /\ now' = now + 1
  /\ resp' = NoResp
  /\ UNCHANGED <<others, impl, books, members, circulation, currentId, serial, assigned, flow, editForm>>

\* ------------------------------------------------------ LibraryTab edit
\* handleEditBook(book): setEditForm({ ...book })
HandleEditBook(c, b) ==
  /\ b \in DOMAIN books
  /\ editForm[c].id = Null
  /\ editForm' = [editForm EXCEPT ![c] = [id |-> b, data |-> books[b]]]
  /\ UNCHANGED <<others, impl, books, members, circulation, currentId, serial, assigned, now, flow, resp>>

\* an input of the edit form: setEditForm({ ...editForm, title })
EditTitle(c, t) ==
  /\ editForm[c].id # Null
  /\ editForm[c].data.title # t
  /\ editForm' = [editForm EXCEPT ![c].data = Merge(@, [title |-> t])]
  /\ UNCHANGED <<others, impl, books, members, circulation, currentId, serial, assigned, now, flow, resp>>

\* handleSaveEdit: PUT /api/books/:id with the whole edit form
HandleSaveEdit(c) ==
  /\ editForm[c].id # Null
  /\ IF editForm[c].id \in DOMAIN books
     THEN /\ books' = updateBook(editForm[c].id, editForm[c].data)
          /\ editForm' = [editForm EXCEPT ![c] = NoForm]
          /\ flow' = Interleaved
          /\ resp' = [op |-> "PUT /api/books/:id", status |-> 200,
                      val |-> books'[editForm[c].id], by |-> "edit",
                      before |-> books[editForm[c].id]]
     ELSE /\ resp' = [op |-> "PUT /api/books/:id", status |-> 404]
          /\ UNCHANGED <<books, flow, editForm>>
  /\ UNCHANGED <<others, impl, members, circulation, currentId, serial, assigned, now>>

\* ------------------------------------------- CirculationTab.issueBook
\* handleConfirmIssue: issueBook.mutate({ bookId, memberId }) for a book of
\* the available list and a member of the members list
IssueStart(c, b, m) ==
  /\ flow[c].pc \notin InFlight
  /\ b \in DOMAIN books /\ books[b].status = "available"
  /\ m \in DOMAIN members
  /\ flow' = [flow EXCEPT ![c] =
                [IdleFlow EXCEPT !.kind = "issue", !.pc = "post_circulation",
                                 !.bookId = b, !.memberId = m,
                                 !.first = NextId("circulation"),
                                 !.status0 = books[b].status]]
  /\ UNCHANGED <<others, impl, books, members, circulation, currentId, serial, assigned, now,
                 editForm, resp>>

\* POST /api/circulation as a step of the flow of client c
FlowPostCirculation(c, body, nextPc) ==
  /\ LET parsed == insertCirculationSchema(body)
         record == createCirculationRecord(parsed.data)
     IN IF parsed.ok /\ InsertAccepted(parsed.data)
        THEN /\ circulation' = Put(circulation, record.id, record)
             /\ Advance("circulation")
             /\ flow' = [Disturbed(c) EXCEPT
                           ![c].pc = nextPc,
                           ![c].rec = IF flow[c].kind = "issue" THEN record.id ELSE @]
        ELSE /\ flow' = [flow EXCEPT ![c].pc = "error"]
             /\ UNCHANGED <<circulation, currentId, serial, assigned>>
  /\ resp' = NoResp
  /\ UNCHANGED <<others, impl, books, members, now, editForm>>

\* PUT /api/circulation/:id as a step of the flow of client c
FlowPutCirculation(c, updates, nextPc) ==
  /\ IF HasRoute("PUT", "/api/circulation/:id")
     THEN IF flow[c].rec \in DOMAIN circulation
          THEN /\ circulation' = updateCirculationRecord(flow[c].rec, updates)
               /\ flow' = [Disturbed(c) EXCEPT ![c].pc = nextPc]
          ELSE /\ flow' = [flow EXCEPT ![c].pc = "error"]
               /\ UNCHANGED circulation
     ELSE /\ \E outcome \in UnroutedOutcomes :
               flow' = [flow EXCEPT
                          ![c].pc = IF outcome = "ok" THEN nextPc ELSE "error"]
          /\ UNCHANGED circulation
  /\ resp' = NoResp
  /\ UNCHANGED <<others, impl, books, members, currentId, serial, assigned, now, editForm>>

\* PUT /api/books/:id as the last step of the flow of client c
FlowPutBook(c, updates) ==
  /\ IF flow[c].bookId \in DOMAIN books
     THEN /\ books' = updateBook(flow[c].bookId, updates)
          /\ flow' = [Disturbed(c) EXCEPT ![c].pc = "success"]
     ELSE /\ flow' = [flow EXCEPT ![c].pc = "error"]
          /\ UNCHANGED books
  /\ resp' = NoResp
  /\ UNCHANGED <<others, impl, members, circulation, currentId, serial, assigned, now, editForm>>

IssuePostCirculation(c) ==
  /\ flow[c].kind = "issue" /\ flow[c].pc = "post_circulation"
  /\ FlowPostCirculation(c, [bookId |-> flow[c].bookId,
                             memberId |-> flow[c].memberId,
                             action |-> "borrow"], "put_circulation")

\* dueDate.setDate(dueDate.getDate() + 14)
IssueDueDate(t) == t + LoanDays

IssuePutCirculation(c) ==
  /\ flow[c].kind = "issue" /\ flow[c].pc = "put_circulation"
  /\ FlowPutCirculation(c, [dueDate |-> IssueDueDate(now)], "put_book")

IssuePutBook(c) ==
  /\ flow[c].kind = "issue" /\ flow[c].pc = "put_book"
  /\ FlowPutBook(c, [status |-> "issued"])

\* variant: onError compensates by removing the record the flow created
RequestFailsUndo(c) ==
  /\ flow[c].pc \in InFlight
  /\ flow' = [flow EXCEPT ![c].pc = "error"]
  /\ circulation' = IF flow[c].kind = "issue" /\ flow[c].rec \in DOMAIN circulation
                    THEN Remove(circulation, flow[c].rec) ELSE circulation
  /\ UNCHANGED <<others, impl, books, members, currentId, serial, assigned, now, editForm, resp>>

\* a request of the flow fails (the store or the network is unavailable):
\* the mutation rejects, onError runs, nothing is undone
RequestFails(c) ==
  /\ flow[c].pc \in InFlight
  /\ flow' = [flow EXCEPT ![c].pc = "error"]
  /\ UNCHANGED <<others, impl, books, members, circulation, currentId, serial, assigned, now,
                 editForm, resp>>

\* ------------------------------------------ CirculationTab.returnBook
\* handleReturnBook(item.book.id) on an entry of the issued list
ReturnStart(c, b) ==
  /\ flow[c].pc \notin InFlight
  /\ \E i \in DOMAIN getIssuedBooks(Ascending(DOMAIN circulation)) :
        getIssuedBooks(Ascending(DOMAIN circulation))[i].book.id = b
  /\ flow' = [flow EXCEPT ![c] =
                [IdleFlow EXCEPT !.kind = "return", !.pc = "get_active",
                                 !.bookId = b,
                                 !.first = NextId("circulation"),
                                 !.status0 = books[b].status]]
  /\ UNCHANGED <<others, impl, books, members, circulation, currentId, serial, assigned, now,
                 editForm, resp>>

\* activeRecords.find((record) => record.bookId === bookId): the index of the
\* first match, 0 when there is none
Find(activeRecords, bookId) ==
  IF \E i \in DOMAIN activeRecords : activeRecords[i].bookId = bookId
  THEN Min({i \in DOMAIN activeRecords : activeRecords[i].bookId = bookId})
  ELSE 0

\* variant: the flow goes on to the record's requests whether or not find
\* returned a record
ReturnGetActiveUnguarded(c) ==
  /\ flow[c].kind = "return" /\ flow[c].pc = "get_active"
  /\ \E ord \in RowOrders :
       LET activeRecords == getActiveCirculation(ord)
           i == Find(activeRecords, flow[c].bookId)
       IN flow' = [flow EXCEPT
                     ![c].pc = "put_circulation",
                     ![c].rec = IF i = 0 THEN Null ELSE activeRecords[i].id,
                     ![c].memberId = IF i = 0 THEN Null ELSE activeRecords[i].memberId]
  /\ UNCHANGED <<others, impl, books, members, circulation, currentId, serial, assigned, now,
                 editForm, resp>>

\* GET /api/circulation/active, then find
ReturnGetActive(c) ==
  /\ flow[c].kind = "return" /\ flow[c].pc = "get_active"
  /\ \E ord \in RowOrders :
       LET activeRecords == getActiveCirculation(ord)
           i == Find(activeRecords, flow[c].bookId)
       IN flow' = [flow EXCEPT
                     ![c].pc = IF i = 0 THEN "put_book" ELSE "put_circulation",
                     ![c].rec = IF i = 0 THEN Null ELSE activeRecords[i].id,
                     ![c].memberId = IF i = 0 THEN Null ELSE activeRecords[i].memberId]
  /\ UNCHANGED <<others, impl, books, members, circulation, currentId, serial, assigned, now,
                 editForm, resp>>

ReturnPutCirculation(c) ==
  /\ flow[c].kind = "return" /\ flow[c].pc = "put_circulation"
  /\ FlowPutCirculation(c, [status |-> "returned"], "post_circulation")

ReturnPostCirculation(c) ==
  /\ flow[c].kind = "return" /\ flow[c].pc = "post_circulation"
  /\ FlowPostCirculation(c, [bookId |-> flow[c].bookId,
                             memberId |-> flow[c].memberId,
                             action |-> "return"], "put_book")

ReturnPutBook(c) ==
  /\ flow[c].kind = "return" /\ flow[c].pc = "put_book"
  /\ FlowPutBook(c, [status |-> "available"])

\* -------------------------------------------- IStorage called directly
\* the InsertCirculation values a caller passes
CirculationInputs ==
  {[bookId |-> b, memberId |-> m, action |-> a] :
     b \in DOMAIN books, m \in DOMAIN members, a \in {"borrow", "return"}}

WithDueDate(data) == Merge(data, [dueDate |-> now + 1])

\* storage.createCirculationRecord(data)
CreateCirculationRecord(data) ==
  /\ InsertAccepted(data)
  /\ LET record == createCirculationRecord(data)
     IN circulation' = Put(circulation, record.id, record)
  /\ Advance("circulation")
  /\ resp' = NoResp
  /\ UNCHANGED <<others, impl, books, members, now, flow, editForm>>

\* storage.updateCirculationRecord(id, updates)
UpdateCirculationRecord(id, updates) ==
  /\ circulation' = updateCirculationRecord(id, updates)
  /\ resp' = [op |-> "updateCirculationRecord", id |-> id, updates |-> updates,
              threw |-> FALSE,
              ret |-> OrUndefined(circulation', id)]
  /\ UNCHANGED <<others, impl, books, members, currentId, serial, assigned, now, flow, editForm>>

\* storage.updateBook(id, updates)
UpdateBook(id, updates) ==
  /\ books' = updateBook(id, updates)
  /\ resp' = [op |-> "updateBook", id |-> id, updates |-> updates,
              threw |-> FALSE,
              ret |-> OrUndefined(books', id)]
  /\ UNCHANGED <<others, impl, members, circulation, currentId, serial, assigned,
                 now, flow, editForm>>

\* storage.deleteBook(id)
DeleteBook(id) ==
  /\ IF DeleteAccepted("bookId", id)
     THEN /\ books' = deleteBook(id)
          /\ resp' = [op |-> "deleteBook", id |-> id, threw |-> FALSE,
                      deleted |-> id \in DOMAIN books]
     ELSE /\ resp' = [op |-> "deleteBook", id |-> id, threw |-> TRUE]
          /\ UNCHANGED books
  /\ UNCHANGED <<others, impl, members, circulation, currentId, serial, assigned,
                 now, flow, editForm>>

\* storage.updateMember(id, updates)
UpdateMember(id, updates) ==
  /\ IF id \notin DOMAIN members \/ UniqueAccepted(members, "registrationNo", updates, id)
     THEN /\ members' = updateMember(id, updates)
          /\ resp' = [op |-> "updateMember", id |-> id, updates |-> updates,
                      threw |-> FALSE,
                      ret |-> OrUndefined(members', id)]
     ELSE /\ resp' = [op |-> "updateMember", id |-> id, updates |-> updates,
                      threw |-> TRUE]
          /\ UNCHANGED members
  /\ UNCHANGED <<others, impl, books, circulation, currentId, serial, assigned,
                 now, flow, editForm>>

\* storage.deleteMember(id)
DeleteMember(id) ==
  /\ IF DeleteAccepted("memberId", id)
     THEN /\ members' = deleteMember(id)
          /\ resp' = [op |-> "deleteMember", id |-> id, threw |-> FALSE,
                      deleted |-> id \in DOMAIN members]
     ELSE /\ resp' = [op |-> "deleteMember", id |-> id, threw |-> TRUE]
          /\ UNCHANGED members
  /\ UNCHANGED <<others, impl, books, circulation, currentId, serial, assigned,
                 now, flow, editForm>>

\* storage.updateCategory(id, updates)
UpdateCategory(id, updates) ==
  /\ IF id \notin DOMAIN categories \/ UniqueAccepted(categories, "name", updates, id)
     THEN /\ categories' = updateCategory(id, updates)
          /\ resp' = [op |-> "updateCategory", id |-> id, updates |-> updates,
                      threw |-> FALSE,
                      ret |-> OrUndefined(categories', id)]
     ELSE /\ resp' = [op |-> "updateCategory", id |-> id, updates |-> updates,
                      threw |-> TRUE]
          /\ UNCHANGED categories
  /\ UNCHANGED <<twin, impl, books, members, circulation, currentId, serial, assigned,
                 now, flow, editForm, bookSuggestions, bookReviews, loggedIn>>

\* storage.deleteCategory(id)
DeleteCategory(id) ==
  /\ categories' = deleteCategory(id)
  /\ resp' = [op |-> "deleteCategory", id |-> id, threw |-> FALSE,
              deleted |-> id \in DOMAIN categories]
  /\ UNCHANGED <<twin, impl, books, members, circulation, currentId, serial, assigned,
                 now, flow, editForm, bookSuggestions, bookReviews, loggedIn>>

\* storage.updateBookSuggestion(id, updates)
UpdateBookSuggestion(id, updates) ==
  /\ bookSuggestions' = updateBookSuggestion(id, updates)
  /\ resp' = [op |-> "updateBookSuggestion", id |-> id, updates |-> updates,
              threw |-> FALSE,
              ret |-> OrUndefined(bookSuggestions', id)]
  /\ UNCHANGED <<twin, impl, books, members, circulation, currentId, serial, assigned,
                 now, flow, editForm, categories, bookReviews, loggedIn>>

\* storage.updateBookReview(id, updates)
UpdateBookReview(id, updates) ==
  /\ bookReviews' = updateBookReview(id, updates)
  /\ resp' = [op |-> "updateBookReview", id |-> id, updates |-> updates,
              threw |-> FALSE,
              ret |-> OrUndefined(bookReviews', id)]
  /\ UNCHANGED <<twin, impl, books, members, circulation, currentId, serial, assigned,
                 now, flow, editForm, categories, bookSuggestions, loggedIn>>

\* ------------------------------------------------------------ LoginPage
AdminUsername == "MUhimmathlibrary"
AdminPassword == "Muhimmathlibrary2025"
Usernames == {AdminUsername, "guest"}
Passwords == {AdminPassword, "guess"}

\* handleLogin: localStorage.setItem("isAdminLoggedIn", "true") when the
\* credentials match; nothing removes the item
Login(c, username, password) ==
  /\ loggedIn' = [loggedIn EXCEPT
                    ![c] = IF username = AdminUsername /\ password = AdminPassword
                           THEN TRUE ELSE @]
  /\ UNCHANGED <<twin, impl, books, members, circulation, currentId, serial, assigned,
                 now, flow, editForm, resp, categories, bookSuggestions,
                 bookReviews>>

\* the read operations: the response is kept until the next write or tick
GetOverdueCirculation ==
  /\ \E ord \in RowOrders :
       resp' = [op |-> "getOverdueCirculation", val |-> getOverdueCirculation(ord)]
  /\ UNCHANGED <<others, impl, books, members, circulation, currentId, serial, assigned, now, flow,
                 editForm>>

GetIssuedBooks ==
  /\ \E ord \in RowOrders :
       resp' = [op |-> "getIssuedBooks", val |-> getIssuedBooks(ord)]
  /\ UNCHANGED <<others, impl, books, members, circulation, currentId, serial, assigned, now, flow,
                 editForm>>

GetMostReadBooks ==
  /\ \E ord \in RowOrders :
       resp' = [op |-> "getMostReadBooks", val |-> getMostReadBooks(ord)]
  /\ UNCHANGED <<others, impl, books, members, circulation, currentId, serial, assigned, now, flow,
                 editForm>>

\* ------------------------------------------------------- specifications
\* the body the Library tab's add-book form posts
FormBody == [title |-> "t1"]

\* the body the Members tab's add-member form posts: the admin types a
\* registration number no member has yet
FormMember ==
  [fullName |-> "m", class |-> "k", registrationNo |-> NextId("members")]

\* fewer than max entities have been created
Room(max) == Created < max

\* the admin clients' circulation flows over the REST routes
Next ==
  \/ \E c \in Clients : Room(MaxCreates) /\ PostBooks(c, FormBody)
  \/ \E c \in Clients : Room(MaxCreates) /\ PostMembers(c, FormMember)
  \/ \E c \in Clients, id \in DOMAIN books : DeleteBooks(c, id)
  \/ \E c \in Clients, b \in DOMAIN books, m \in DOMAIN members : IssueStart(c, b, m)
  \/ \E c \in Clients : Room(MaxCreates) /\ IssuePostCirculation(c)
  \/ \E c \in Clients : IssuePutCirculation(c)
  \/ \E c \in Clients : IssuePutBook(c)
  \/ \E c \in Clients, b \in DOMAIN books : ReturnStart(c, b)
  \/ \E c \in Clients : ReturnGetActive(c)
  \/ \E c \in Clients : ReturnPutCirculation(c)
  \/ \E c \in Clients : Room(MaxCreates) /\ ReturnPostCirculation(c)
  \/ \E c \in Clients : ReturnPutBook(c)
  \/ \E c \in Clients : RequestFails(c)

Spec == Init /\ [][Next]_vars

\* one client runs the circulation flows while another edits in the Library tab
NextEdit ==
  \/ Room(MaxCreates) /\ PostBooks("c1", FormBody)
  \/ Room(MaxCreates) /\ PostMembers("c1", FormMember)
  \/ \E b \in DOMAIN books, m \in DOMAIN members : IssueStart("c1", b, m)
  \/ Room(MaxCreates) /\ IssuePostCirculation("c1")
  \/ IssuePutCirculation("c1")
  \/ IssuePutBook("c1")
  \/ \E b \in DOMAIN books : ReturnStart("c1", b)
  \/ ReturnGetActive("c1")
  \/ ReturnPutCirculation("c1")
  \/ Room(MaxCreates) /\ ReturnPostCirculation("c1")
  \/ ReturnPutBook("c1")
  \/ \E b \in DOMAIN books : HandleEditBook("c2", b)
  \/ \E t \in Titles : EditTitle("c2", t)
  \/ HandleSaveEdit("c2")
  \/ \E id \in DOMAIN books : DeleteBooks("c2", id)

SpecEdit == Init /\ [][NextEdit]_vars

\* the store driven through POST /api/books and direct IStorage calls, with
\* the clock running
NextStore ==
  \/ \E body \in BookBodies : Room(MaxStoreCreates) /\ PostBooks("c1", body)
  \/ Room(MaxStoreCreates) /\ PostMembers("c1", FormMember)
  \/ \E id \in DOMAIN books : DeleteBooks("c1", id)
  \/ \E data \in CirculationInputs :
       Room(MaxStoreCreates) /\ CreateCirculationRecord(data)
  \/ \E data \in CirculationInputs :
       Room(MaxStoreCreates) /\ CreateCirculationRecord(WithDueDate(data))
  \/ \E id \in DOMAIN circulation : UpdateCirculationRecord(id, [status |-> "returned"])
  \/ \E id \in DOMAIN circulation : UpdateCirculationRecord(id, [dueDate |-> now + 1])
  \/ GetOverdueCirculation
  \/ GetIssuedBooks
  \/ Tick

SpecStore == Init /\ [][NextStore]_vars

\* the circulation history grows and is read by the analytics
NextAnalytics ==
  \/ Room(MaxReadCreates) /\ PostBooks("c1", FormBody)
  \/ Room(MaxReadCreates) /\ PostMembers("c1", FormMember)
  \/ \E id \in DOMAIN books : DeleteBooks("c1", id)
  \/ \E data \in CirculationInputs :
       Room(MaxReadCreates) /\ CreateCirculationRecord(data)
  \/ GetMostReadBooks

SpecAnalytics == Init /\ [][NextAnalytics]_vars

\* one client's circulation flows, records with a due date, and the clock
NextOverdue ==
  \/ Room(MaxStoreCreates) /\ PostBooks("c1", FormBody)
  \/ Room(MaxStoreCreates) /\ PostMembers("c1", FormMember)
  \/ \E b \in DOMAIN books, m \in DOMAIN members : IssueStart("c1", b, m)
  \/ Room(MaxStoreCreates) /\ IssuePostCirculation("c1")
  \/ IssuePutCirculation("c1")
  \/ IssuePutBook("c1")
  \/ \E b \in DOMAIN books : ReturnStart("c1", b)
  \/ ReturnGetActive("c1")
  \/ ReturnPutCirculation("c1")
  \/ Room(MaxStoreCreates) /\ ReturnPostCirculation("c1")
  \/ ReturnPutBook("c1")
  \/ \E data \in CirculationInputs :
       Room(MaxStoreCreates) /\ CreateCirculationRecord(WithDueDate(data))
  \/ \E id \in DOMAIN circulation : UpdateCirculationRecord(id, [status |-> "returned"])
  \/ GetOverdueCirculation
  \/ Tick

SpecOverdue == Init /\ [][NextOverdue]_vars

\* every entity type behind its routes and the IStorage operations, called
\* by a client that may or may not have logged in
Visitor == "c2"
RegistrationNos == {1, 2}
Names == {"n1", "n2"}
Ratings == {3, 6}

\* the ids a table has handed out, and the one it hands out next
SomeIds(table) == Range(assigned[table]) \cup {NextId(table)}

MemberBodies ==
  {[fullName |-> "m", class |-> "k", registrationNo |-> r] :
     r \in RegistrationNos}
    \cup {[fullName |-> "m"]}

CategoryBodies == {[name |-> n] : n \in Names} \cup {[title |-> "t1"]}

SuggestionBodies ==
  {[memberId |-> m, bookTitle |-> "t1"] : m \in SomeIds("members")}
    \cup {[bookTitle |-> "t1"]}

ReviewBodies ==
  {[bookId |-> b, memberId |-> m, rating |-> r] :
     b \in SomeIds("books"), m \in SomeIds("members"), r \in Ratings}
    \cup {[rating |-> 3]}

CirculationBodies ==
  {[bookId |-> b, memberId |-> m, action |-> "borrow"] :
     b \in SomeIds("books"), m \in SomeIds("members")}
    \cup {[action |-> "borrow"]}

NextCrud ==
  \/ \E u \in Usernames, p \in Passwords : Login(Visitor, u, p)
  \/ \E body \in BookBodies : Room(MaxCrudCreates) /\ PostBooks(Visitor, body)
  \/ \E body \in MemberBodies : Room(MaxCrudCreates) /\ PostMembers(Visitor, body)
  \/ \E body \in CategoryBodies : Room(MaxCrudCreates) /\ PostCategories(Visitor, body)
  \/ \E body \in SuggestionBodies :
       Room(MaxCrudCreates) /\ PostBookSuggestions(Visitor, body)
  \/ \E body \in ReviewBodies : Room(MaxCrudCreates) /\ PostBookReviews(Visitor, body)
  \/ \E body \in CirculationBodies :
       Room(MaxCrudCreates) /\ PostCirculation(Visitor, body)
  \/ \E id \in SomeIds("books") : GetBooksId(Visitor, id)
  \/ \E id \in SomeIds("books") : PutBooks(Visitor, id, [title |-> "t2"])
  \/ \E id \in SomeIds("books") : DeleteBooks(Visitor, id)
  \/ \E id \in SomeIds("categories") : DeleteCategories(Visitor, id)
  \/ \E id \in SomeIds("books") : UpdateBook(id, [title |-> "t2"])
  \/ \E id \in SomeIds("books") : DeleteBook(id)
  \/ \E id \in SomeIds("members"), r \in RegistrationNos :
       UpdateMember(id, [registrationNo |-> r])
  \/ \E id \in SomeIds("members") : DeleteMember(id)
  \/ \E id \in SomeIds("categories"), n \in Names : UpdateCategory(id, [name |-> n])
  \/ \E id \in SomeIds("categories") : DeleteCategory(id)
  \/ \E id \in SomeIds("bookSuggestions") :
       UpdateBookSuggestion(id, [status |-> "approved"])
  \/ \E id \in SomeIds("bookReviews"), r \in Ratings :
       UpdateBookReview(id, [rating |-> r])
  \/ \E id \in SomeIds("circulation") :
       UpdateCirculationRecord(id, [status |-> "returned"])

SpecCrud == Init /\ [][NextCrud]_vars

\* ------------------------------------------------------------- properties
ActiveFor(b) ==
  {k \in DOMAIN circulation : circulation[k].bookId = b
                              /\ circulation[k].status = "active"}

\* the records created since the flow of client c began
NewRecords(c) == {k \in DOMAIN circulation : k >= flow[c].first}

\* the flow of client c ran to its end, every request answered, alone
Completed(c, kind) ==
  flow[c].kind = kind /\ flow[c].pc = "success" /\ flow[c].clean

\* C1: in every reachable state a book's status is "issued" if and only if
\* some circulation record with its bookId has status "active".
C1_IssuedIffActive ==
  \A b \in DOMAIN books : books[b].status = "issued" <=> ActiveFor(b) # {}

\* C2: when the issue flow for book B and member M has run to completion,
\* no request failed and none interleaved, B.status is "issued" and exactly
\* one new record exists: bookId B, memberId M, action borrow, status active,
\* dueDate = borrow time + 14 days.
C2_IssueCompletes ==
  \A c \in Clients :
    Completed(c, "issue") =>
      /\ flow[c].bookId \in DOMAIN books
      /\ books[flow[c].bookId].status = "issued"
      /\ Cardinality(NewRecords(c)) = 1
      /\ \A k \in NewRecords(c) :
           /\ circulation[k].bookId = flow[c].bookId
           /\ circulation[k].memberId = flow[c].memberId
           /\ circulation[k].action = "borrow"
           /\ circulation[k].status = "active"
           /\ Get(circulation[k], "dueDate") = circulation[k].date + LoanDays

\* the return flow of client c found an active borrow record of an issued book
ReturnedIssued(c) ==
  /\ Completed(c, "return")
  /\ flow[c].status0 = "issued"
  /\ flow[c].rec \in DOMAIN circulation
  /\ circulation[flow[c].rec].action = "borrow"

\* C3: when the return flow for an issued book B with active borrow record R
\* has run to completion, B.status is "available", R.status is "returned" and
\* one new record with action return, bookId B and R's memberId exists.
C3_ReturnCompletes ==
  \A c \in Clients :
    ReturnedIssued(c) =>
      /\ flow[c].bookId \in DOMAIN books
      /\ books[flow[c].bookId].status = "available"
      /\ circulation[flow[c].rec].status = "returned"
      /\ Cardinality(NewRecords(c)) = 1
      /\ \A k \in NewRecords(c) :
           /\ circulation[k].action = "return"
           /\ circulation[k].bookId = flow[c].bookId
           /\ circulation[k].memberId = circulation[flow[c].rec].memberId

\* C4: after a return flow for book B has completed, no circulation record of
\* B is active, and B is neither in getActiveCirculation nor in getIssuedBooks.
C4_NoActiveAfterReturn ==
  \A c \in Clients :
    (Completed(c, "return") /\ flow[c].status0 = "issued") =>
      /\ ActiveFor(flow[c].bookId) = {}
      /\ \A ord \in RowOrders :
           /\ \A i \in DOMAIN getActiveCirculation(ord) :
                getActiveCirculation(ord)[i].bookId # flow[c].bookId
           /\ \A i \in DOMAIN getIssuedBooks(ord) :
                getIssuedBooks(ord)[i].book.id # flow[c].bookId

\* the issue flow of client c stopped after its first or its second request
IssueStopped(c) ==
  /\ flow[c].kind = "issue"
  /\ flow[c].pc \in {"put_circulation", "put_book", "error"}
  /\ flow[c].rec # Null

\* C9: if the issue flow stops after its first or second request, the writes
\* made persist and nothing undoes them: the active borrow record of the book
\* exists while the book's status is still "available".
C9_PartialIssuePersists ==
  \A c \in Clients :
    IssueStopped(c) =>
      /\ flow[c].rec \in DOMAIN circulation
      /\ circulation[flow[c].rec].bookId = flow[c].bookId
      /\ circulation[flow[c].rec].action = "borrow"
      /\ circulation[flow[c].rec].status = "active"
      /\ flow[c].clean =>
           /\ flow[c].bookId \in DOMAIN books
           /\ books[flow[c].bookId].status = "available"

C9_Witness ==
  \E c \in Clients :
    /\ IssueStopped(c) /\ flow[c].pc = "error" /\ flow[c].clean
    /\ books[flow[c].bookId].status = "available"
    /\ flow[c].rec \in ActiveFor(flow[c].bookId)

\* the ids of the records a response lists
Listed(val) == {val[i].id : i \in DOMAIN val}

Overdue(k) ==
  /\ circulation[k].status = "active"
  /\ "dueDate" \in DOMAIN circulation[k]
  /\ circulation[k].dueDate # Null
  /\ circulation[k].dueDate < now

\* C5: getOverdueCirculation returns exactly the records with status active
\* and dueDate earlier than the current time, each once and as stored; a
\* record due now or later, without dueDate or not active is excluded.
C5_OverdueExact ==
  resp.op = "getOverdueCirculation" =>
    /\ Listed(resp.val) = {k \in DOMAIN circulation : Overdue(k)}
    /\ Len(resp.val) = Cardinality(Listed(resp.val))
    /\ \A i \in DOMAIN resp.val : resp.val[i] = circulation[resp.val[i].id]

C5_Witness ==
  /\ resp.op = "getOverdueCirculation"
  /\ resp.val # <<>>
  /\ \E k \in DOMAIN circulation :
       /\ k \notin Listed(resp.val)
       /\ circulation[k].status = "active"
       /\ Get(circulation[k], "dueDate") >= now

Borrows(b) ==
  Cardinality({k \in DOMAIN circulation :
                 circulation[k].bookId = b /\ circulation[k].action = "borrow"})

\* C6: getMostReadBooks returns one entry per book with at least one borrow
\* record, borrowCount = the number of its borrow records (return records not
\* counted), in non-increasing order of borrowCount; 3 borrows of A and 1
\* borrow of B give [A:3, B:1].
C6_MostReadBooks ==
  resp.op = "getMostReadBooks" =>
    /\ \A b \in DOMAIN books :
         Cardinality({i \in DOMAIN resp.val : resp.val[i].book.id = b})
           = IF Borrows(b) > 0 THEN 1 ELSE 0
    /\ \A i \in DOMAIN resp.val :
         /\ resp.val[i].book.id \in DOMAIN books
         /\ resp.val[i].book = books[resp.val[i].book.id]
         /\ resp.val[i].borrowCount = Borrows(resp.val[i].book.id)
    /\ \A i, j \in DOMAIN resp.val :
         i < j => resp.val[i].borrowCount >= resp.val[j].borrowCount
    /\ \A a, b \in DOMAIN books :
         (Borrows(a) = 3 /\ Borrows(b) = 1 /\ DOMAIN books = {a, b}) =>
           resp.val = <<[book |-> books[a], borrowCount |-> 3],
                        [book |-> books[b], borrowCount |-> 1]>>

C6_Witness ==
  /\ resp.op = "getMostReadBooks"
  /\ Len(resp.val) = 2
  /\ resp.val[1].borrowCount = 3 /\ resp.val[2].borrowCount = 1
  /\ resp.val[1].book.id > resp.val[2].book.id

\* C7: getIssuedBooks returns exactly one entry per circulation record with
\* status active, with that record's book, member and dueDate; no active
\* record is left out.
C7_IssuedBooksComplete ==
  resp.op = "getIssuedBooks" =>
    LET active == {k \in DOMAIN circulation : circulation[k].status = "active"}
    IN /\ Len(resp.val) = Cardinality(active)
       /\ \A k \in active :
            \E i \in DOMAIN resp.val :
              /\ resp.val[i].book.id = circulation[k].bookId
              /\ resp.val[i].member.id = circulation[k].memberId
              /\ resp.val[i].dueDate = Get(circulation[k], "dueDate")

\* C8: saving an edit from the Library tab leaves the stored status of the
\* book unchanged, also when an issue or return of the book completed between
\* opening the form and saving it.
C8_EditKeepsStatus ==
  (resp.op = "PUT /api/books/:id" /\ resp.status = 200) =>
    resp.val.status = resp.before.status

\* C10: createBook stores and returns a book with status "available", also
\* when the body of POST /api/books carries another status.
C10_CreatedAvailable ==
  (resp.op = "POST /api/books" /\ resp.status = 201) =>
    /\ "status" \in DOMAIN resp.val
    /\ resp.val.status = "available"
    /\ resp.val.id \in DOMAIN books
    /\ books[resp.val.id] = resp.val

C10_Witness ==
  /\ resp.op = "POST /api/books" /\ resp.status = 201
  /\ "status" \in DOMAIN resp.body
  /\ resp.body.status = "issued"
  /\ books[resp.val.id].status = "available"

\* the table a POST route creates in
PostTable(op) ==
  CASE op = "POST /api/books" -> "books"
    [] op = "POST /api/members" -> "members"
    [] op = "POST /api/categories" -> "categories"
    [] op = "POST /api/book-suggestions" -> "bookSuggestions"
    [] op = "POST /api/book-reviews" -> "bookReviews"
    [] op = "POST /api/circulation" -> "circulation"

PostOps == {"POST /api/books", "POST /api/members", "POST /api/categories",
            "POST /api/book-suggestions", "POST /api/book-reviews",
            "POST /api/circulation"}

\* C11: every create assigns an id strictly greater than every id an earlier
\* create of the same entity type assigned, so an id is never used twice, the
\* ids of deleted entities included; the created entity carries that id.
C11_IdsIncrease ==
  /\ \A t \in Tables :
       /\ \A i, j \in DOMAIN assigned[t] :
            i < j => assigned[t][i] < assigned[t][j]
       /\ \A id \in DOMAIN Table(t) :
            id \in Range(assigned[t]) /\ Table(t)[id].id = id
  /\ (resp.op \in PostOps /\ resp.status = 201) =>
       resp.val.id = assigned[PostTable(resp.op)][Len(assigned[PostTable(resp.op)])]

C11_Witness ==
  \E t \in {"books", "members", "categories"} :
    /\ Len(assigned[t]) >= 2
    /\ assigned[t][1] \notin DOMAIN Table(t)
    /\ assigned[t][2] \in DOMAIN Table(t)

UpdateOps == {"updateBook", "updateMember", "updateCategory",
              "updateBookSuggestion", "updateBookReview", "updateCirculationRecord"}

DeleteOps == {"deleteBook", "deleteMember", "deleteCategory"}

\* the table an IStorage update or delete works on
StoreOpTable(op) ==
  CASE op \in {"updateBook", "deleteBook"} -> "books"
    [] op \in {"updateMember", "deleteMember"} -> "members"
    [] op \in {"updateCategory", "deleteCategory"} -> "categories"
    [] op = "updateBookSuggestion" -> "bookSuggestions"
    [] op = "updateBookReview" -> "bookReviews"
    [] op = "updateCirculationRecord" -> "circulation"

entities == <<books, members, categories, bookSuggestions, bookReviews, circulation>>

PostParse(op, body) ==
  CASE op = "POST /api/books" -> insertBookSchema(body)
    [] op = "POST /api/members" -> insertMemberSchema(body)
    [] op = "POST /api/categories" -> insertCategorySchema(body)
    [] op = "POST /api/book-suggestions" -> insertBookSuggestionSchema(body)
    [] op = "POST /api/book-reviews" -> insertBookReviewSchema(body)
    [] op = "POST /api/circulation" -> insertCirculationSchema(body)

\* C13: a POST to /api/books, /api/members, /api/categories,
\* /api/book-suggestions, /api/book-reviews or /api/circulation whose body
\* fails the insert schema is answered 400 and leaves the store unchanged; a
\* body that passes the schema is answered 201 with the created entity.
C13_PostValidates ==
  [][(resp' # resp /\ resp'.op \in PostOps) =>
       IF PostParse(resp'.op, resp'.body).ok
       THEN /\ resp'.status = 201
            /\ \A t \in Tables :
                 t = PostTable(resp'.op) =>
                   /\ resp'.val.id \notin DOMAIN Table(t)
                   /\ Table(t)' = Put(Table(t), resp'.val.id, resp'.val)
       ELSE /\ resp'.status = 400
            /\ UNCHANGED entities]_vars

\* the constraints the schema declares hold for the parsed data of a POST
ConstraintsHold(op, data) ==
  CASE op = "POST /api/books" -> TRUE
    [] op = "POST /api/members" ->
         UniqueHolds(members, "registrationNo", data.registrationNo, Null)
    [] op = "POST /api/categories" -> UniqueHolds(categories, "name", data.name, Null)
    [] op = "POST /api/book-suggestions" -> data.memberId \in DOMAIN members
    [] op = "POST /api/book-reviews" ->
         data.bookId \in DOMAIN books /\ data.memberId \in DOMAIN members
    [] op = "POST /api/circulation" ->
         data.bookId \in DOMAIN books /\ data.memberId \in DOMAIN members

\* C13 (amended): a POST whose body fails the insert schema is answered 400
\* and leaves the store unchanged; a body that passes the schema is answered
\* 201 with the created entity, except that DatabaseStorage rejects an insert
\* that breaks a unique or foreign-key constraint, which is answered 500 and
\* leaves the store unchanged.
C13_PostValidatesOrRejects ==
  [][(resp' # resp /\ resp'.op \in PostOps) =>
       LET parsed == PostParse(resp'.op, resp'.body)
       IN IF ~parsed.ok
          THEN resp'.status = 400 /\ UNCHANGED entities
          ELSE IF impl = "db" /\ ~ConstraintsHold(resp'.op, parsed.data)
          THEN resp'.status = 500 /\ UNCHANGED entities
          ELSE /\ resp'.status = 201
               /\ \A t \in Tables :
                    t = PostTable(resp'.op) =>
                      /\ resp'.val.id \notin DOMAIN Table(t)
                      /\ Table(t)' = Put(Table(t), resp'.val.id, resp'.val)
                      /\ \A k \in DOMAIN parsed.data :
                           resp'.val[k] = parsed.data[k]]_vars

C13_Witness ==
  /\ resp.op = "POST /api/members"
  /\ resp.status = 500
  /\ \E k \in DOMAIN members : members[k].registrationNo = resp.body.registrationNo

BookIdOps == {"GET /api/books/:id", "PUT /api/books/:id", "DELETE /api/books/:id"}

BookReferenced(id) ==
  \/ \E k \in DOMAIN circulation : circulation[k].bookId = id
  \/ \E k \in DOMAIN bookReviews : bookReviews[k].bookId = id

C15_RatingBounded ==
  \A k \in DOMAIN bookReviews :
    1 <= bookReviews[k].rating /\ bookReviews[k].rating <= 5

\* C16: no two stored members have the same registrationNo and no two stored
\* categories have the same name.
C16_UniqueColumns ==
  /\ \A a, b \in DOMAIN members :
       a # b => members[a].registrationNo # members[b].registrationNo
  /\ \A a, b \in DOMAIN categories :
       a # b => categories[a].name # categories[b].name

\* C17: every circulation record's bookId refers to a book in the store and
\* its memberId to a member in the store.
C17_ReferencesResolve ==
  \A k \in DOMAIN circulation :
    /\ circulation[k].bookId \in DOMAIN books
    /\ circulation[k].memberId \in DOMAIN members

\* C18: no operation of the store and no step of the issue or return flow
\* writes status "overdue"; a record whose dueDate has passed stays "active"
\* until it is returned; the passage of time changes no stored record; a read
\* decides what is overdue by comparing dueDate with the current time.
C18_OverdueNotStored ==
  [][/\ \A k \in DOMAIN circulation' : circulation'[k].status # "overdue"
     /\ \A k \in DOMAIN circulation :
          (circulation[k].status = "active" /\ k \in DOMAIN circulation') =>
            circulation'[k].status \in {"active", "returned"}
     /\ now' # now => UNCHANGED entities
     /\ (resp' # resp /\ resp'.op = "getOverdueCirculation") =>
          Listed(resp'.val) =
            {k \in DOMAIN circulation :
               /\ circulation[k].status = "active"
               /\ Get(circulation[k], "dueDate") # Null
               /\ Get(circulation[k], "dueDate") < now}]_vars

C18_Witness ==
  /\ now = MaxTime
  /\ resp.op = "getOverdueCirculation"
  /\ \E k \in Listed(resp.val) :
       /\ circulation[k].status = "active"
       /\ circulation[k].dueDate < now
  /\ \E c \in Clients : flow[c].kind = "issue" /\ flow[c].pc = "success"

\* C19: management functions (create, update, delete of books, members and
\* categories, create or update of circulation records) can be performed only
\* by a client that has completed a successful admin login.  Every request
\* of SpecCrud is made by Visitor.
C19_ManagementNeedsLogin ==
  [][(\/ books' # books
      \/ members' # members
      \/ categories' # categories
      \/ circulation' # circulation) => loggedIn[Visitor]]_vars

\* the orders in which a list operation may return the rows of a table
ListOrders(m) == IF impl = "mem" THEN {Ascending(DOMAIN m)} ELSE Orders(m)

\* C20: circulation records, book reviews and book suggestions are never
\* lost: every one that was created is still returned by its get(id) and by
\* its list operation.
C20_HistoryKept ==
  \A t \in {"circulation", "bookReviews", "bookSuggestions"} :
    \A i \in DOMAIN assigned[t] :
      /\ ~OrUndefined(Table(t), assigned[t][i]).undefined
      /\ OrUndefined(Table(t), assigned[t][i]).value.id = assigned[t][i]
      /\ \A ord \in ListOrders(Table(t)) :
           \E j \in DOMAIN DbRows(Table(t), ord) :
             DbRows(Table(t), ord)[j].id = assigned[t][i]

C20_Witness ==
  \E k \in DOMAIN circulation :
    /\ circulation[k].status = "returned"
    /\ circulation[k].bookId \in Range(assigned["books"])
    /\ \/ circulation[k].bookId \notin DOMAIN books
       \/ resp = [op |-> "DELETE /api/books/:id", id |-> circulation[k].bookId,
                  status |-> 500]

\* ------------------------------------------------------- member search
\* Text is a sequence of characters; the characters a name or a query is
\* written with here: a letter in both cases and LIKE's one-character wildcard
SearchChars == {"a", "A", "_"}
MaxTextLen == 2
Texts == UNION {[1..n -> SearchChars] : n \in 1..MaxTextLen}

\* String.prototype.toLowerCase
toLowerCase(s) == [i \in DOMAIN s |-> IF s[i] = "A" THEN "a" ELSE s[i]]

\* String.prototype.includes
includes(s, q) ==
  \E i \in 0..(Len(s) - Len(q)) : SubSeq(s, i + 1, i + Len(q)) = q

\* SQL: text LIKE pattern ('%' any run of characters, '_' any one
\* character, every other character itself, in its own case)
RECURSIVE like(_, _)
like(s, p) ==
  IF p = <<>> THEN s = <<>>
  ELSE IF Head(p) = "%" THEN like(s, Tail(p)) \/ (s # <<>> /\ like(Tail(s), p))
  ELSE /\ s # <<>>
       /\ Head(p) = "_" \/ Head(p) = Head(s)
       /\ like(Tail(s), Tail(p))

\* MemStorage.searchMembers
MemSearchMembers(mems, query) ==
  LET lowerQuery == toLowerCase(query)
      matches(member) == \/ includes(toLowerCase(member.fullName), lowerQuery)
                         \/ includes(toLowerCase(member.class), lowerQuery)
                         \/ includes(toLowerCase(member.registrationNo), lowerQuery)
  IN SelectSeq(MemValues(mems), matches)

\* DatabaseStorage.searchMembers
DbSearchMembers(mems, ord, query) ==
  LET lowerQuery == <<"%">> \o toLowerCase(query) \o <<"%">>
      matches(member) == \/ like(member.fullName, lowerQuery)
                         \/ like(member.class, lowerQuery)
                         \/ like(member.registrationNo, lowerQuery)
  IN SelectSeq(DbRows(mems, ord), matches)

searchMembers(ord, query) ==
  IF impl = "mem" THEN MemSearchMembers(members, query)
  ELSE DbSearchMembers(members, ord, query)

MemberOrders == IF impl = "mem" THEN {Ascending(DOMAIN members)}
                ELSE Orders(members)

\* GET /api/members/search?q=...
GetMembersSearch(c, q) ==
  /\ IF q = <<>>
     THEN resp' = [op |-> "GET /api/members/search", q |-> q, status |-> 400]
     ELSE \E ord \in MemberOrders :
            resp' = [op |-> "GET /api/members/search", q |-> q, status |-> 200,
                     val |-> searchMembers(ord, q)]
  /\ UNCHANGED <<others, impl, store, now, flow, editForm, assigned>>

\* members whose three text columns are written with SearchChars, and the
\* queries of the search box
MaxSearchCreates == 2
SearchBodies ==
  {[fullName |-> f, class |-> k, registrationNo |-> r] :
     f \in Texts, k \in {<<"a">>, <<"A">>}, r \in {<<"a">>, <<"_">>}}

NextSearch ==
  \/ \E body \in SearchBodies : Room(MaxSearchCreates) /\ PostMembers("c1", body)
  \/ \E q \in Texts \cup {<<>>} : GetMembersSearch("c1", q)

SpecSearch == Init /\ [][NextSearch]_vars

\* s contains q when the case of the letters is ignored on both sides
ContainsIgnoringCase(s, q) ==
  \E i \in 0..(Len(s) - Len(q)) :
    \A j \in 1..Len(q) :
      \/ s[i + j] = q[j]
      \/ {s[i + j], q[j]} = {"a", "A"}

\* C21: a member search answers with exactly the stored members whose
\* fullName, class or registrationNo contains the query, letter case ignored
\* on both sides, whichever storage is bound.
C21_SearchIgnoresCase ==
  (resp.op = "GET /api/members/search" /\ resp.status = 200) =>
    {resp.val[i].id : i \in DOMAIN resp.val}
      = {id \in DOMAIN members :
           \/ ContainsIgnoringCase(members[id].fullName, resp.q)
           \/ ContainsIgnoringCase(members[id].class, resp.q)
           \/ ContainsIgnoringCase(members[id].registrationNo, resp.q)}

\* ------------------------------------------------------------ MembersTab
\* MembersTab.updateMember: handleSaveEdit sends the edited copy of the member
\* with PUT /api/members/:id
MembersTabUpdateMember(c, id, fullName) ==
  /\ id \in DOMAIN members
  /\ LET data == [members[id] EXCEPT !.fullName = fullName]
     IN IF HasRoute("PUT", "/api/members/:id")
        THEN /\ members' = updateMember(id, data)
             /\ resp' = [op |-> "PUT /api/members/:id", id |-> id,
                         data |-> data, outcome |-> "ok"]
        ELSE /\ \E outcome \in UnroutedOutcomes :
                  resp' = [op |-> "PUT /api/members/:id", id |-> id,
                           data |-> data, outcome |-> outcome]
             /\ UNCHANGED members
  /\ UNCHANGED <<others, impl, books, circulation, currentId, serial, assigned,
                 now, flow, editForm>>

\* MembersTab.deleteMember: DELETE /api/members/:id
MembersTabDeleteMember(c, id) ==
  /\ id \in DOMAIN members
  /\ IF HasRoute("DELETE", "/api/members/:id")
     THEN /\ members' = deleteMember(id)
          /\ resp' = [op |-> "DELETE /api/members/:id", id |-> id,
                      outcome |-> "ok"]
     ELSE /\ \E outcome \in UnroutedOutcomes :
               resp' = [op |-> "DELETE /api/members/:id", id |-> id,
                        outcome |-> outcome]
          /\ UNCHANGED members
  /\ UNCHANGED <<others, impl, books, circulation, currentId, serial, assigned,
                 now, flow, editForm>>

\* the admin Members tab in two browsers
NextMembersTab ==
  \/ \E c \in Clients, body \in MemberBodies :
       Room(MaxCrudCreates) /\ PostMembers(c, body)
  \/ \E c \in Clients, id \in DOMAIN members, n \in Names :
       MembersTabUpdateMember(c, id, n)
  \/ \E c \in Clients, id \in DOMAIN members : MembersTabDeleteMember(c, id)

SpecMembersTab == Init /\ [][NextMembersTab]_vars

\* C22: an edit made in the Members tab is applied to the stored member by
\* PUT /api/members/:id, and a delete made there removes the stored member
\* by DELETE /api/members/:id.
C22_MemberEditsApply ==
  [][resp' # resp =>
       /\ resp'.op = "PUT /api/members/:id" =>
            /\ resp'.id \in DOMAIN members'
            /\ members'[resp'.id].fullName = resp'.data.fullName
       /\ resp'.op = "DELETE /api/members/:id" =>
            resp'.id \notin DOMAIN members']_vars

\* ------------------------------------------------- most active readers
\* results.push({ member, borrowCount }) for the keys whose member exists
RECURSIVE JoinMembers(_, _)
JoinMembers(counts, mems) ==
  IF counts = <<>> THEN <<>>
  ELSE (IF Head(counts)[1] \in DOMAIN mems
        THEN <<[member |-> mems[Head(counts)[1]], borrowCount |-> Head(counts)[2]]>>
        ELSE <<>>) \o JoinMembers(Tail(counts), mems)

\* variant: the results are returned as pushed, without the final sort
MemGetMostActiveReadersUnsorted(circ, mems) ==
  JoinMembers(BorrowCounts(MemValues(circ), "memberId", <<>>), mems)

\* MemStorage.getMostActiveReaders
MemGetMostActiveReaders(circ, mems) ==
  SortDesc(JoinMembers(BorrowCounts(MemValues(circ), "memberId", <<>>), mems), <<>>)

\* DatabaseStorage.getMostActiveReaders
DbGetMostActiveReaders(circ, ord, mems) ==
  SortDesc(JoinMembers(BorrowCounts(DbRows(circ, ord), "memberId", <<>>), mems), <<>>)

getMostActiveReaders(ord) ==
  IF impl = "mem" THEN MemGetMostActiveReaders(circulation, members)
  ELSE DbGetMostActiveReaders(circulation, ord, members)

\* storage.getMostActiveReaders()
GetMostActiveReaders ==
  /\ \E ord \in RowOrders :
       resp' = [op |-> "getMostActiveReaders", val |-> getMostActiveReaders(ord)]
  /\ UNCHANGED <<others, impl, store, assigned, now, flow, editForm>>

\* members, the records of their loans, and the readers' ranking
MaxReaderCreates == 7
NextReaders ==
  \/ Room(MaxReaderCreates) /\ PostBooks("c1", FormBody)
  \/ Room(MaxReaderCreates) /\ PostMembers("c1", FormMember)
  \/ \E id \in DOMAIN members : DeleteMember(id)
  \/ \E data \in CirculationInputs :
       Room(MaxReaderCreates) /\ CreateCirculationRecord(data)
  \/ GetMostActiveReaders

SpecReaders == Init /\ [][NextReaders]_vars

\* the number of borrow records of member m
BorrowsOf(m) ==
  Cardinality({k \in DOMAIN circulation :
                 circulation[k].memberId = m /\ circulation[k].action = "borrow"})

\* C23: getMostActiveReaders returns one entry per member with at least one
\* borrow record and none for the other members, each entry with the member
\* and borrowCount = the number of that member's borrow records, in
\* non-increasing order of borrowCount.
C23_MostActiveReaders ==
  resp.op = "getMostActiveReaders" =>
    /\ \A m \in DOMAIN members :
         Cardinality({i \in DOMAIN resp.val : resp.val[i].member.id = m})
           = IF BorrowsOf(m) > 0 THEN 1 ELSE 0
    /\ \A i \in DOMAIN resp.val :
         /\ resp.val[i].member.id \in DOMAIN members
         /\ resp.val[i].member = members[resp.val[i].member.id]
         /\ resp.val[i].borrowCount = BorrowsOf(resp.val[i].member.id)
    /\ \A i, j \in DOMAIN resp.val :
         i < j => resp.val[i].borrowCount >= resp.val[j].borrowCount

\* the later member borrowed more than the earlier one and is ranked first,
\* and a return record of the earlier one was not counted
C23_Witness ==
  /\ resp.op = "getMostActiveReaders"
  /\ Len(resp.val) = 2
  /\ resp.val[1].borrowCount = 2 /\ resp.val[2].borrowCount = 1
  /\ resp.val[1].member.id > resp.val[2].member.id
  /\ \E k \in DOMAIN circulation :
       /\ circulation[k].action = "return"
       /\ circulation[k].memberId = resp.val[2].member.id

\* the active borrow records of book b
ActiveBorrows(b) ==
  {k \in DOMAIN circulation :
     /\ circulation[k].bookId = b
     /\ circulation[k].action = "borrow"
     /\ circulation[k].status = "active"}

\* C24: at any time, whatever the interleaving of the requests of the issue
\* flows several clients run for the same book, a book has at most one
\* circulation record with action borrow and status active.
C24_OneActiveBorrow ==
  \A b \in DOMAIN books : Cardinality(ActiveBorrows(b)) <= 1

\* the issue and return flows of two admin clients over one small library
MaxFlowCreates == 5
NextCirculation ==
  \/ Room(MaxFlowCreates) /\ PostBooks("c1", FormBody)
  \/ Room(MaxFlowCreates) /\ PostMembers("c1", FormMember)
  \/ \E c \in Clients, b \in DOMAIN books, m \in DOMAIN members : IssueStart(c, b, m)
  \/ \E c \in Clients : Room(MaxFlowCreates) /\ IssuePostCirculation(c)
  \/ \E c \in Clients : IssuePutCirculation(c)
  \/ \E c \in Clients : IssuePutBook(c)
  \/ \E c \in Clients, b \in DOMAIN books : ReturnStart(c, b)
  \/ \E c \in Clients : ReturnGetActive(c)
  \/ \E c \in Clients : ReturnPutCirculation(c)
  \/ \E c \in Clients : Room(MaxFlowCreates) /\ ReturnPostCirculation(c)
  \/ \E c \in Clients : ReturnPutBook(c)

SpecCirculation == Init /\ [][NextCirculation]_vars

\* the borrow records of book b
BorrowRecords(b) ==
  {k \in DOMAIN circulation :
     circulation[k].bookId = b /\ circulation[k].action = "borrow"}

\* C25: the record the return flow selects to mark "returned" is a record
\* with action borrow of the returned book, and it is that book's latest
\* borrow, also when the book was issued and returned before; never a record
\* with action return.
C25_ReturnSelectsLatestBorrow ==
  [][\A c \in Clients :
       (flow[c].pc = "get_active" /\ flow'[c].pc = "put_circulation") =>
         /\ flow'[c].rec \in BorrowRecords(flow[c].bookId)
         /\ \A k \in BorrowRecords(flow[c].bookId) : k <= flow'[c].rec]_vars

\* C27: at any time, whatever the interleaving of the issue and return flows
\* of several clients, a book has no more records with action return than
\* records with action borrow.
C27_ReturnsWithinBorrows ==
  \A b \in DOMAIN books :
    Cardinality({k \in DOMAIN circulation :
                   circulation[k].bookId = b /\ circulation[k].action = "return"})
      <= Cardinality(BorrowRecords(b))

\* C26: a return flow that finds no active circulation record for its book
\* sends neither the PUT nor the POST for a record: it creates no record and
\* modifies none, and its last request still sets the book's status to
\* "available".
C26_ReturnWithoutActiveRecord ==
  [][\A c \in Clients :
       (flow[c].kind = "return" /\ flow'[c].pc # flow[c].pc) =>
         /\ (flow[c].pc = "get_active" /\ ActiveFor(flow[c].bookId) = {}) =>
              /\ flow'[c].pc = "put_book"
              /\ flow'[c].rec = Null
              /\ circulation' = circulation
         /\ (flow[c].pc = "put_book" /\ flow[c].rec = Null
               /\ flow[c].bookId \in DOMAIN books) =>
              /\ flow'[c].pc = "success"
              /\ circulation' = circulation
              /\ books'[flow[c].bookId].status = "available"]_vars

\* a return flow ended after it had found no active record for its book,
\* which another request had marked returned since the flow was started
C26_Witness ==
  \E c \in Clients :
    /\ flow[c].kind = "return" /\ flow[c].pc = "success" /\ flow[c].rec = Null
    /\ ActiveFor(flow[c].bookId) = {}
    /\ flow[c].status0 = "issued"
    /\ books[flow[c].bookId].status = "available"
    /\ \A k \in DOMAIN circulation : circulation[k].action # "return"

\* ------------------------------ MemStorage and DatabaseStorage side by side
\* `storage` is a MemStorage; twin is the circulation table of a
\* DatabaseStorage that holds the same books and members and is given every
\* circulation call the MemStorage is given. A record is addressed by its
\* place n in the order of creation: each store is passed the id it returned.
MemGetCirculation(circ) == MemValues(circ)

DbGetCirculation(circ, ord) == DbRows(circ, ord)

TwinCreateCirculationRecord(data) ==
  /\ impl = "mem"
  /\ ForeignKeysHold(books, members, data)
  /\ LET record == MemCreateCirculationRecord(data, currentId, now)
         row == DbCreateCirculationRecord(data, twin.serial, now)
     IN /\ circulation' = Put(circulation, record.id, record)
        /\ twin' = [circulation |-> Put(twin.circulation, row.id, row),
                    serial |-> twin.serial + 1]
        /\ resp' = [op |-> "createCirculationRecord",
                    val |-> <<record>>, twin |-> <<row>>]
  /\ Advance("circulation")
  /\ UNCHANGED <<categories, bookSuggestions, bookReviews, loggedIn, impl,
                 books, members, now, flow, editForm>>

TwinUpdateCirculationRecord(n, updates) ==
  /\ impl = "mem"
  /\ n \in DOMAIN assigned["circulation"]
  /\ circulation' = MemUpdateCirculationRecord(circulation,
                                              assigned["circulation"][n], updates)
  /\ twin' = [twin EXCEPT
                !.circulation = DbUpdateCirculationRecord(@, n, updates)]
  /\ resp' = [op |-> "updateCirculationRecord",
              val |-> <<circulation'[assigned["circulation"][n]]>>,
              twin |-> <<twin'.circulation[n]>>]
  /\ UNCHANGED <<categories, bookSuggestions, bookReviews, loggedIn, impl,
                 books, members, currentId, serial, assigned, now, flow, editForm>>

\* a read of both stores; the database rows come in any order
TwinRead(op, val, row) ==
  /\ impl = "mem"
  /\ resp' = [op |-> op, val |-> val, twin |-> row]
  /\ UNCHANGED <<others, impl, store, assigned, now, flow, editForm>>

TwinGetCirculation ==
  \E ord \in Orders(twin.circulation) :
    TwinRead("getCirculation", MemGetCirculation(circulation),
             DbGetCirculation(twin.circulation, ord))

TwinGetActiveCirculation ==
  \E ord \in Orders(twin.circulation) :
    TwinRead("getActiveCirculation", MemGetActiveCirculation(circulation),
             DbGetActiveCirculation(twin.circulation, ord))

TwinGetIssuedBooks ==
  \E ord \in Orders(twin.circulation) :
    TwinRead("getIssuedBooks", MemGetIssuedBooks(circulation, books, members),
             DbGetIssuedBooks(twin.circulation, ord, books, members))

MaxTwinCreates == 5
NextEquivalence ==
  \/ Room(MaxTwinCreates) /\ PostBooks("c1", FormBody)
  \/ Room(MaxTwinCreates) /\ PostMembers("c1", FormMember)
  \/ \E data \in CirculationInputs :
       Room(MaxTwinCreates) /\ TwinCreateCirculationRecord(data)
  \/ \E n \in DOMAIN assigned["circulation"] :
       TwinUpdateCirculationRecord(n, [status |-> "returned"])
  \/ TwinGetCirculation
  \/ TwinGetActiveCirculation
  \/ TwinGetIssuedBooks

\* storage = new MemStorage()
InitMemStorage == Init /\ impl = "mem"

SpecEquivalence == InitMemStorage /\ [][NextEquivalence]_vars

\* what a caller compares of a circulation record or of an issued-books entry
Observed(e) ==
  IF "book" \in DOMAIN e THEN [bookId |-> e.book.id, memberId |-> e.member.id]
  ELSE [bookId |-> e.bookId, memberId |-> e.memberId,
        action |-> e.action, status |-> e.status]

\* the same observations, each as many times, in any order
SameObservations(a, b) ==
  \A x \in {Observed(a[i]) : i \in DOMAIN a} \cup {Observed(b[i]) : i \in DOMAIN b} :
    Cardinality({i \in DOMAIN a : Observed(a[i]) = x})
      = Cardinality({i \in DOMAIN b : Observed(b[i]) = x})

\* C28: after the same createCirculationRecord / updateCirculationRecord
\* calls, MemStorage and DatabaseStorage return from these calls and from
\* getCirculation, getActiveCirculation and getIssuedBooks records with the
\* same bookId, memberId, action and status; a record created with action
\* return has the same status in both.
C28_StoragesAgree ==
  resp.op \in {"createCirculationRecord", "updateCirculationRecord",
               "getCirculation", "getActiveCirculation", "getIssuedBooks"} =>
    ("twin" \in DOMAIN resp => SameObservations(resp.val, resp.twin))

\* ------------------------------------------- MemStorage: ids and updates
\* a MemStorage behind the book and member routes and updateMember; the body
\* of PUT /api/books/:id and the partial of an update may name any field,
\* the id among them
MaxMemCreates == 3
NextMemStore ==
  \/ Room(MaxMemCreates) /\ PostBooks("c1", FormBody)
  \/ Room(MaxMemCreates) /\ PostMembers("c1", FormMember)
  \/ \E id \in SomeIds("books") : GetBooksId("c1", id)
  \/ \E id \in SomeIds("books") : PutBooks("c1", id, [title |-> "t2"])
  \/ \E id, other \in SomeIds("books") : PutBooks("c1", id, [id |-> other])
  \/ \E id, other \in SomeIds("members") : UpdateMember(id, [id |-> other])

SpecMemStore == InitMemStorage /\ [][NextMemStore]_vars

\* C29: every entity in a MemStorage map has as its id field the key it is
\* stored under, so that a get by id returns an entity with that id, after
\* any creates and updates, an update whose partial carries an id included.
C29_IdIsKey ==
  /\ \A t \in Tables : \A k \in DOMAIN Table(t) : Table(t)[k].id = k
  /\ (resp.op = "GET /api/books/:id" /\ resp.status = 200) =>
       resp.val.value.id = resp.id

\* C30: update(id, partial) on an id in the store changes, of the entity
\* stored under id, the fields named in partial and no other field; every
\* other entity of every collection and the id counters are unchanged, and
\* the entity it returns is the stored one. An update the database rejects
\* changes nothing.
C30_UpdateFrame ==
  [][(/\ resp' # resp
      /\ resp'.op \in UpdateOps
      /\ "updates" \in DOMAIN resp'
      /\ resp'.id \in DOMAIN Table(StoreOpTable(resp'.op)))
       => /\ currentId' = currentId /\ serial' = serial
          /\ \A t \in Tables :
               IF t # StoreOpTable(resp'.op) \/ resp'.threw
               THEN Table(t)' = Table(t)
               ELSE /\ DOMAIN Table(t)' = DOMAIN Table(t)
                    /\ \A k \in DOMAIN Table(t) :
                         k # resp'.id => Table(t)'[k] = Table(t)[k]
                    /\ DOMAIN Table(t)'[resp'.id]
                         = DOMAIN Table(t)[resp'.id] \cup DOMAIN resp'.updates
                    /\ \A f \in DOMAIN Table(t)'[resp'.id] :
                         Table(t)'[resp'.id][f]
                           = IF f \in DOMAIN resp'.updates THEN resp'.updates[f]
                             ELSE Table(t)[resp'.id][f]
                    /\ resp'.ret = [undefined |-> FALSE,
                                    value |-> Table(t)'[resp'.id]]]_vars

\* a book with a status and a creation time got a new title and nothing else
C30_Witness ==
  /\ resp.op = "updateBook" /\ ~resp.threw /\ ~resp.ret.undefined
  /\ resp.updates = [title |-> "t2"]
  /\ books[resp.id].title = "t2"
  /\ books[resp.id].status = "available"
  /\ Cardinality(DOMAIN books) > 1

====
